---- MODULE Spec2Model ----
(***************************************************************************)
(* vizalign: the global pairwise aligner (makeMatrix, globalAlign), the    *)
(* variant extractor (findIndelsSubstitutions) and the Cython reference     *)
(* aligner (global_align) the JavaScript is ported from.                    *)
(*                                                                          *)
(* Conventions.  A string is a sequence of one-character strings.  A        *)
(* JavaScript number is an integer or NaN; `undefined` in arithmetic is     *)
(* NaN.  An Int32Array is a sequence read and written through Get and Set,  *)
(* which give JavaScript's behaviour for an index outside the array (read:  *)
(* undefined, write: ignored) and for storing NaN (0).  Scores stay far     *)
(* inside the 32-bit range for the inputs explored, so ToInt32 never wraps. *)
(* matchPercentage is kept in thousandths of a percent (87.5 is 87500).     *)
(***************************************************************************)
EXTENDS Integers, Sequences, FiniteSets, Bags, TLC

\* ------------------------------------------------------------------------
\* Bounds of the explored inputs
\* ------------------------------------------------------------------------
MaxRefLen == 3
MaxReadLen == 2

Bases == {"A", "T", "N"}
IncentiveValues == {1, 100}
GapPenalties == {<<-1, -1>>, <<-20, -2>>}

\* ------------------------------------------------------------------------
\* Program constants
\* ------------------------------------------------------------------------
MARRAY == 1
IARRAY == 2
JARRAY == 3
matSize == 256

\* NaN (and `undefined` used as a number): a value no score can take.
NaN == 1000000007
\* `undefined` as an array element or a string index out of range.
Undefined == "undefined"
Gap == "-"

\* ------------------------------------------------------------------------
\* JavaScript numbers, typed arrays and strings
\* ------------------------------------------------------------------------
Add(a, b) == IF a = NaN \/ b = NaN THEN NaN ELSE a + b

Mul(a, b) == IF a = NaN \/ b = NaN THEN NaN ELSE a * b

\* a > b; every comparison with NaN is false
Gt(a, b) == a # NaN /\ b # NaN /\ a > b

ToInt32(x) == IF x = NaN THEN 0 ELSE x

\* arr[k] of an Int32Array (k is 0-based)
Get(arr, k) == IF k = NaN \/ k < 0 \/ k >= Len(arr) THEN NaN ELSE arr[k + 1]

\* arr[k] = v on an Int32Array
Set(arr, k, v) ==
    IF k = NaN \/ k < 0 \/ k >= Len(arr) THEN arr
    ELSE [arr EXCEPT ![k + 1] = ToInt32(v)]

\* new Int32Array(n)
Int32Array(n) == [k \in 1..n |-> 0]

\* s[k] of a string (k is 0-based)
CharAt(s, k) == IF k < 0 \/ k >= Len(s) THEN Undefined ELSE s[k + 1]

CodeOf(c) ==
    CASE c = "A" -> 65
      [] c = "C" -> 67
      [] c = "G" -> 71
      [] c = "N" -> 78
      [] c = "T" -> 84
      [] c = "-" -> 45
      [] OTHER -> 63

\* s.charCodeAt(k)
charCodeAt(s, k) == IF k < 0 \/ k >= Len(s) THEN NaN ELSE CodeOf(s[k + 1])

\* arr.reverse()
Reverse(arr) == [k \in 1..Len(arr) |-> arr[Len(arr) + 1 - k]]

\* Array.join('') if it rendered undefined elements instead of skipping them
Join_keepUndefined(arr) == arr

\* arr.join(''): an undefined element contributes the empty string
Join(arr) == SelectSeq(arr, LAMBDA c : c # Undefined)

\* ------------------------------------------------------------------------
\* makeMatrix
\* ------------------------------------------------------------------------
nucCodes == {CodeOf("A"), CodeOf("T"), CodeOf("C"), CodeOf("G")}
nCode == CodeOf("N")

\* makeMatrix with the N column written but not the N row
makeMatrix_oneSidedN(matchScore, mismatchScore, nMismatchScore, nMatchScore) ==
    LET cells == 0..(matSize * matSize - 1)
        filled == [k \in cells |-> 0]
        pairs == [k \in cells |->
                    IF \E code1, code2 \in nucCodes :
                          code1 = code2 /\ k = code1 * matSize + code2
                    THEN matchScore
                    ELSE IF \E code1, code2 \in nucCodes : k = code1 * matSize + code2
                    THEN mismatchScore
                    ELSE filled[k]]
        withN == [k \in cells |->
                    IF \E code \in nucCodes : k = code * matSize + nCode
                    THEN nMismatchScore
                    ELSE pairs[k]]
    IN  [k \in cells |-> IF k = nCode * matSize + nCode THEN nMatchScore ELSE withN[k]]

\* the writes in the order the code makes them: fill(0), the nucleotide pairs,
\* the N row and column, the N/N cell
makeMatrix(matchScore, mismatchScore, nMismatchScore, nMatchScore) ==
    LET cells == 0..(matSize * matSize - 1)
        filled == [k \in cells |-> 0]
        pairs == [k \in cells |->
                    IF \E code1, code2 \in nucCodes :
                          code1 = code2 /\ k = code1 * matSize + code2
                    THEN matchScore
                    ELSE IF \E code1, code2 \in nucCodes : k = code1 * matSize + code2
                    THEN mismatchScore
                    ELSE filled[k]]
        withN == [k \in cells |->
                    IF \E code \in nucCodes :
                          k = code * matSize + nCode \/ k = nCode * matSize + code
                    THEN nMismatchScore
                    ELSE pairs[k]]
    IN  [k \in cells |-> IF k = nCode * matSize + nCode THEN nMatchScore ELSE withN[k]]

\* the matrix every caller in the repository builds: makeMatrix(5, -4, -2, -1)
DefaultMatrix == makeMatrix(5, -4, -2, -1)

\* the cells of the matrix a sequence over A, T, C, G, N addresses
AddressedCells ==
    {ci * matSize + cj : ci, cj \in nucCodes \cup {nCode}}

\* the matrix every caller passes, on the cells that can be addressed
DefaultCells == [k \in AddressedCells |-> DefaultMatrix[k]]

\* m[ci * matSize + cj]
MatrixAt(m, ci, cj) ==
    IF ci = NaN \/ cj = NaN THEN NaN ELSE m[ci * matSize + cj]

\* ------------------------------------------------------------------------
\* State
\* ------------------------------------------------------------------------
VARIABLES
    seqJ, seqI, gapIncentive, gapOpen, gapExtend,   \* arguments of globalAlign
    matrix,                                         \* the scoring matrix argument
    pc,                                             \* position in the program
    outcome,                                        \* how the globalAlign call ended
    mScore, iScore, jScore,                         \* score planes (flat Int32Array)
    mPointer, iPointer, jPointer,                   \* pointer planes (flat Int32Array)
    assigned,                                       \* history: assignments to each score cell
    fi, fj,                                         \* loop indices of the fill
    currI, currJ, currMatrix,                       \* traceback position and plane
    alignmentJ, alignmentI,                         \* characters pushed by the traceback
    matchCount, alignCounter,
    result,                                         \* the object globalAlign returns
    cy,                                             \* traceback of the Cython global_align
    fis,                                            \* findIndelsSubstitutions call
    mm,                                             \* makeMatrix call
    sg,                                             \* findsgRNAInSequence call
    ui                                              \* page: sequence fields and timers

alignVars == <<seqJ, seqI, matrix, gapIncentive, gapOpen, gapExtend, pc, outcome,
               mScore, iScore, jScore, mPointer, iPointer, jPointer, assigned,
               fi, fj,
               currI, currJ, currMatrix, alignmentJ, alignmentI,
               matchCount, alignCounter, result>>

pageVars == <<sg, ui>>

vars == <<alignVars, cy, fis, mm, pageVars>>

inputVars == <<seqJ, seqI, matrix, gapIncentive, gapOpen, gapExtend>>
planeVars == <<mScore, iScore, jScore, mPointer, iPointer, jPointer, assigned>>
fillVars == <<fi, fj>>
tracebackVars == <<currI, currJ, currMatrix, alignmentJ, alignmentI,
                   matchCount, alignCounter>>

maxJ == Len(seqJ)
maxI == Len(seqI)

NoResult == [alignedSeqJ |-> <<>>, alignedSeqI |-> <<>>, matchPercentage |-> -1]

\* the six planes as one value
Planes == [mScore |-> mScore, iScore |-> iScore, jScore |-> jScore,
           mPointer |-> mPointer, iPointer |-> iPointer, jPointer |-> jPointer]

\* const idx = (i, j) => i * (maxJ + 1) + j
idx(i, j) == i * (maxJ + 1) + j

\* const minScore = gapOpen * maxJ * maxI
minScore == gapOpen * maxJ * maxI

\* ------------------------------------------------------------------------
\* globalAlign: boundary initialisation
\* ------------------------------------------------------------------------
\* the cell (i, j) a flat index k stands for
RowOf(k) == k \div (maxJ + 1)
ColOf(k) == k % (maxJ + 1)

\* mScore after the three initialisation statements (the last write wins)
InitMScore(arr) ==
    [k \in 1..Len(arr) |->
        IF k - 1 = idx(0, 0) THEN 0
        ELSE IF \E i \in 1..maxI : k - 1 = idx(i, 0) THEN ToInt32(minScore)
        ELSE IF \E j \in 1..maxJ : k - 1 = idx(0, j) THEN ToInt32(minScore)
        ELSE arr[k]]

InitMPointer(arr) ==
    [k \in 1..Len(arr) |->
        IF k - 1 = idx(0, 0) THEN 0
        ELSE IF \E i \in 1..maxI : k - 1 = idx(i, 0) THEN JARRAY
        ELSE IF \E j \in 1..maxJ : k - 1 = idx(0, j) THEN IARRAY
        ELSE arr[k]]

InitIScore(arr) ==
    [k \in 1..Len(arr) |->
        IF \E i \in 0..maxI : k - 1 = idx(i, 0) THEN ToInt32(minScore)
        ELSE IF \E i \in 1..maxJ : k - 1 = idx(0, i)
             THEN ToInt32(Add(gapExtend * ColOf(k - 1), Get(gapIncentive, 0)))
        ELSE arr[k]]

InitIPointer(arr) ==
    [k \in 1..Len(arr) |->
        IF \E i \in 1..maxJ : k - 1 = idx(0, i) THEN IARRAY ELSE arr[k]]

InitJScore(arr) ==
    [k \in 1..Len(arr) |->
        IF \E j \in 0..maxJ : k - 1 = idx(0, j) THEN ToInt32(minScore)
        ELSE IF \E i \in 1..maxI : k - 1 = idx(i, 0)
             THEN ToInt32(Add(gapExtend * RowOf(k - 1), Get(gapIncentive, 0)))
        ELSE arr[k]]

InitJPointer(arr) ==
    [k \in 1..Len(arr) |->
        IF \E i \in 1..maxI : k - 1 = idx(i, 0) THEN JARRAY ELSE arr[k]]

\* ------------------------------------------------------------------------
\* globalAlign: the recurrences of one cell (i, j); g is the penalty of the
\* transition from M (gapOpen in the interior, gapExtend in the last column
\* and the last row)
\* ------------------------------------------------------------------------
ICell(P, i, j, g) ==
    LET iFromMVal == Add(Add(g, Get(P.mScore, idx(i, j - 1))), Get(gapIncentive, i))
        iExtendVal == Add(Add(gapExtend, Get(P.iScore, idx(i, j - 1))),
                          Get(gapIncentive, i))
    IN  IF Gt(iFromMVal, iExtendVal)
        THEN [P EXCEPT !.iScore = Set(@, idx(i, j), iFromMVal),
                       !.iPointer = Set(@, idx(i, j), MARRAY)]
        ELSE [P EXCEPT !.iScore = Set(@, idx(i, j), iExtendVal),
                       !.iPointer = Set(@, idx(i, j), IARRAY)]

\* the J recurrence with the incentive of row i on the opening transition
JCell_incentiveOfRow(P, i, j, g) ==
    LET jFromMVal == Add(Add(g, Get(P.mScore, idx(i - 1, j))),
                         Get(gapIncentive, i))
        jExtendVal == Add(gapExtend, Get(P.jScore, idx(i - 1, j)))
    IN  IF Gt(jFromMVal, jExtendVal)
        THEN [P EXCEPT !.jScore = Set(@, idx(i, j), jFromMVal),
                       !.jPointer = Set(@, idx(i, j), MARRAY)]
        ELSE [P EXCEPT !.jScore = Set(@, idx(i, j), jExtendVal),
                       !.jPointer = Set(@, idx(i, j), JARRAY)]

JCell(P, i, j, g) ==
    LET jFromMVal == Add(Add(g, Get(P.mScore, idx(i - 1, j))),
                         Get(gapIncentive, i - 1))
        jExtendVal == Add(gapExtend, Get(P.jScore, idx(i - 1, j)))
    IN  IF Gt(jFromMVal, jExtendVal)
        THEN [P EXCEPT !.jScore = Set(@, idx(i, j), jFromMVal),
                       !.jPointer = Set(@, idx(i, j), MARRAY)]
        ELSE [P EXCEPT !.jScore = Set(@, idx(i, j), jExtendVal),
                       !.jPointer = Set(@, idx(i, j), JARRAY)]

\* the pointer choice with its comparisons turned round
ChoosePlane_reversed(mVal, iVal, jVal) ==
    IF Gt(jVal, mVal)
    THEN IF Gt(iVal, mVal) THEN MARRAY ELSE IARRAY
    ELSE IF Gt(iVal, jVal) THEN JARRAY ELSE IARRAY

\* the nested comparison that selects a plane among three values
ChoosePlane(mVal, iVal, jVal) ==
    IF Gt(mVal, jVal)
    THEN IF Gt(mVal, iVal) THEN MARRAY ELSE IARRAY
    ELSE IF Gt(jVal, iVal) THEN JARRAY ELSE IARRAY

\* the M recurrence that keeps M on a tie with I
MCell_tieKeepsM(P, i, j) ==
    LET s == MatrixAt(matrix, charCodeAt(seqI, i - 1), charCodeAt(seqJ, j - 1))
        mVal == Add(Get(P.mScore, idx(i - 1, j - 1)), s)
        iVal == Add(Get(P.iScore, idx(i - 1, j - 1)), s)
        jVal == Add(Get(P.jScore, idx(i - 1, j - 1)), s)
        plane == IF Gt(mVal, jVal) /\ mVal = iVal THEN MARRAY
                 ELSE ChoosePlane(mVal, iVal, jVal)
        val == IF plane = MARRAY THEN mVal ELSE IF plane = JARRAY THEN jVal ELSE iVal
    IN  [P EXCEPT !.mScore = Set(@, idx(i, j), val),
                  !.mPointer = Set(@, idx(i, j), plane)]

MCell(P, i, j) ==
    LET s == MatrixAt(matrix, charCodeAt(seqI, i - 1), charCodeAt(seqJ, j - 1))
        mVal == Add(Get(P.mScore, idx(i - 1, j - 1)), s)
        iVal == Add(Get(P.iScore, idx(i - 1, j - 1)), s)
        jVal == Add(Get(P.jScore, idx(i - 1, j - 1)), s)
        plane == ChoosePlane(mVal, iVal, jVal)
        val == IF plane = MARRAY THEN mVal ELSE IF plane = JARRAY THEN jVal ELSE iVal
    IN  [P EXCEPT !.mScore = Set(@, idx(i, j), val),
                  !.mPointer = Set(@, idx(i, j), plane)]

FillCell(P, i, j, g) == MCell(JCell(ICell(P, i, j, g), i, j, g), i, j)

\* the score cells <<plane, i, j>> the boundary initialisation assigns, one
\* copy per assignment statement executed
BoundaryWrites ==
    SetToBag({<<"M", 0, j>> : j \in 1..maxJ})
       (+) SetToBag({<<"M", i, 0>> : i \in 1..maxI})
       (+) SetToBag({<<"M", 0, 0>>})
       (+) SetToBag({<<"I", 0, i>> : i \in 1..maxJ})
       (+) SetToBag({<<"I", i, 0>> : i \in 0..maxI})
       (+) SetToBag({<<"J", i, 0>> : i \in 1..maxI})
       (+) SetToBag({<<"J", 0, j>> : j \in 0..maxJ})

\* the score cells one iteration of a fill loop assigns at (i, j)
CellWrites(i, j) == {<<"I", i, j>>, <<"J", i, j>>, <<"M", i, j>>}

\* the score cells one iteration of a fill loop reads at (i, j)
CellReads(i, j) ==
    {<<"M", i, j - 1>>, <<"I", i, j - 1>>,
     <<"M", i - 1, j>>, <<"J", i - 1, j>>,
     <<"M", i - 1, j - 1>>, <<"I", i - 1, j - 1>>, <<"J", i - 1, j - 1>>}

StorePlanes(P) ==
    /\ mScore' = P.mScore
    /\ iScore' = P.iScore
    /\ jScore' = P.jScore
    /\ mPointer' = P.mPointer
    /\ iPointer' = P.iPointer
    /\ jPointer' = P.jPointer

\* the loop that runs after a phase of the fill (a loop without iterations
\* is skipped)
PhaseAfterLastColumn == IF maxJ >= 1 THEN "lastrow" ELSE "corner"
\* the last-column loop left out
PhaseAfterInterior_skipColumn == PhaseAfterLastColumn

PhaseAfterInterior == IF maxI > 1 THEN "lastcol" ELSE PhaseAfterLastColumn
PhaseAfterInit == IF maxI > 1 /\ maxJ > 1 THEN "interior" ELSE PhaseAfterInterior

\* ------------------------------------------------------------------------
\* Inputs
\* ------------------------------------------------------------------------
Seqs(n) == UNION {[1..k -> Bases] : k \in 0..n}

ZeroVec(n) == [k \in 1..n |-> 0]

\* createGapIncentive(length, [pos], value)
SpikeVec(n, pos, value) == [k \in 1..n |-> IF k - 1 = pos THEN value ELSE 0]

\* incentive vectors for a reference of length n: zero, one raised position,
\* and two vectors of the wrong length
Incentives(n) ==
    {ZeroVec(n + 1)}
        \cup {SpikeVec(n + 1, pos, v) : pos \in 0..n, v \in IncentiveValues}
        \cup {ZeroVec(n), ZeroVec(n + 2)}

CyIdle == [status |-> "idle", i |-> 0, j |-> 0, ci |-> Undefined, cj |-> Undefined,
           currMatrix |-> 0, align_j |-> <<>>, align_i |-> <<>>,
           matchCount |-> 0, align_counter |-> 0,
           result |-> NoResult]

FisIdle == [status |-> "idle"]

MmIdle == [status |-> "idle"]

SgIdle == [status |-> "idle"]

UiIdle == [status |-> "idle"]

\* the state of a globalAlign call on entry
CallState ==
    /\ pc = "start"
    /\ matrix = DefaultCells
    /\ outcome = "running"
    /\ mScore = <<>> /\ iScore = <<>> /\ jScore = <<>>
    /\ mPointer = <<>> /\ iPointer = <<>> /\ jPointer = <<>>
    /\ assigned = EmptyBag
    /\ fi = 0 /\ fj = 0
    /\ currI = 0 /\ currJ = 0 /\ currMatrix = 0
    /\ alignmentJ = <<>> /\ alignmentI = <<>>
    /\ matchCount = 0 /\ alignCounter = 0
    /\ result = NoResult
    /\ cy = CyIdle
    /\ fis = FisIdle
    /\ mm = MmIdle
    /\ sg = SgIdle
    /\ ui = UiIdle

Init ==
    /\ seqI \in Seqs(MaxRefLen)
    /\ seqJ \in Seqs(MaxReadLen)
    /\ gapIncentive \in Incentives(Len(seqI))
    /\ \E g \in GapPenalties : gapOpen = g[1] /\ gapExtend = g[2]
    /\ CallState

\* ------------------------------------------------------------------------
\* globalAlign: validation, allocation, fill
\* ------------------------------------------------------------------------
ThrowLengthMismatch ==
    /\ pc = "start"
    /\ Len(gapIncentive) # maxI + 1
    /\ pc' = "done"
    /\ outcome' = "threw_length"
    /\ UNCHANGED <<inputVars, planeVars, fillVars, tracebackVars, result, cy, fis, mm, pageVars>>

\* the allocation without the length validation in front of it
Allocate_unchecked ==
    /\ pc = "start"
    /\ mScore' = Int32Array((maxI + 1) * (maxJ + 1))
    /\ iScore' = Int32Array((maxI + 1) * (maxJ + 1))
    /\ jScore' = Int32Array((maxI + 1) * (maxJ + 1))
    /\ mPointer' = Int32Array((maxI + 1) * (maxJ + 1))
    /\ iPointer' = Int32Array((maxI + 1) * (maxJ + 1))
    /\ jPointer' = Int32Array((maxI + 1) * (maxJ + 1))
    /\ assigned' = EmptyBag
    /\ pc' = "init"
    /\ UNCHANGED <<inputVars, outcome, fillVars, tracebackVars, result, cy, fis, mm, pageVars>>

Allocate ==
    /\ pc = "start"
    /\ Len(gapIncentive) = maxI + 1
    /\ mScore' = Int32Array((maxI + 1) * (maxJ + 1))
    /\ iScore' = Int32Array((maxI + 1) * (maxJ + 1))
    /\ jScore' = Int32Array((maxI + 1) * (maxJ + 1))
    /\ mPointer' = Int32Array((maxI + 1) * (maxJ + 1))
    /\ iPointer' = Int32Array((maxI + 1) * (maxJ + 1))
    /\ jPointer' = Int32Array((maxI + 1) * (maxJ + 1))
    /\ assigned' = EmptyBag
    /\ pc' = "init"
    /\ UNCHANGED <<inputVars, outcome, fillVars, tracebackVars, result, cy, fis, mm, pageVars>>

InitBoundary ==
    /\ pc = "init"
    /\ mScore' = InitMScore(mScore)
    /\ mPointer' = InitMPointer(mPointer)
    /\ iScore' = InitIScore(iScore)
    /\ iPointer' = InitIPointer(iPointer)
    /\ jScore' = InitJScore(jScore)
    /\ jPointer' = InitJPointer(jPointer)
    /\ assigned' = assigned (+) BoundaryWrites
    /\ pc' = PhaseAfterInit
    /\ fi' = 1 /\ fj' = 1
    /\ UNCHANGED <<inputVars, outcome, tracebackVars, result, cy, fis, mm, pageVars>>

\* one iteration of: for (i = 1; i < maxI; i++) for (j = 1; j < maxJ; j++)
InteriorCell ==
    /\ pc = "interior"
    /\ StorePlanes(FillCell(Planes, fi, fj, gapOpen))
    /\ assigned' = assigned (+) SetToBag(CellWrites(fi, fj))
    /\ IF fj + 1 < maxJ THEN pc' = pc /\ fi' = fi /\ fj' = fj + 1
       ELSE IF fi + 1 < maxI THEN pc' = pc /\ fi' = fi + 1 /\ fj' = 1
       ELSE pc' = PhaseAfterInterior /\ fi' = 1 /\ fj' = 1
    /\ UNCHANGED <<inputVars, outcome, tracebackVars, result, cy, fis, mm, pageVars>>

\* one iteration of: j = maxJ; for (i = 1; i < maxI; i++)
LastColumnCell ==
    /\ pc = "lastcol"
    /\ StorePlanes(FillCell(Planes, fi, maxJ, gapExtend))
    /\ assigned' = assigned (+) SetToBag(CellWrites(fi, maxJ))
    /\ IF fi + 1 < maxI THEN pc' = pc /\ fi' = fi + 1
       ELSE pc' = PhaseAfterLastColumn /\ fi' = 1
    /\ fj' = 1
    /\ UNCHANGED <<inputVars, outcome, tracebackVars, result, cy, fis, mm, pageVars>>

\* one iteration of: i = maxI; for (j = 1; j <= maxJ; j++)
LastRowCell ==
    /\ pc = "lastrow"
    /\ StorePlanes(FillCell(Planes, maxI, fj, gapExtend))
    /\ assigned' = assigned (+) SetToBag(CellWrites(maxI, fj))
    /\ IF fj + 1 <= maxJ THEN pc' = pc /\ fj' = fj + 1
       ELSE pc' = "corner" /\ fj' = 1
    /\ fi' = 1
    /\ UNCHANGED <<inputVars, outcome, tracebackVars, result, cy, fis, mm, pageVars>>

\* ------------------------------------------------------------------------
\* globalAlign: traceback
\* ------------------------------------------------------------------------
StartTraceback ==
    /\ pc = "corner"
    /\ currI' = maxI
    /\ currJ' = maxJ
    /\ currMatrix' = ChoosePlane(Get(mScore, idx(maxI, maxJ)),
                                 Get(iScore, idx(maxI, maxJ)),
                                 Get(jScore, idx(maxI, maxJ)))
    /\ pc' = "traceback"
    /\ UNCHANGED <<inputVars, outcome, planeVars, fillVars, alignmentJ, alignmentI,
                   matchCount, alignCounter, result, cy, fis, mm, pageVars>>

\* currI > 1 ? currI - 1 : 0
Decrement(k) == IF k > 1 THEN k - 1 ELSE 0

\* The loop body is a function of (currI, currJ, currMatrix): an iteration
\* that leaves the three unchanged repeats for ever, pushing one more column
\* each time.
AfterStep(nextI, nextJ, nextMatrix) ==
    /\ currI' = nextI
    /\ currJ' = nextJ
    /\ currMatrix' = nextMatrix
    /\ alignCounter' = alignCounter + 1
    /\ IF nextI = currI /\ nextJ = currJ /\ nextMatrix = currMatrix
       THEN pc' = "cy_start" /\ outcome' = "diverged"
       ELSE pc' = pc /\ UNCHANGED outcome

TracebackM ==
    /\ pc = "traceback"
    /\ ~(currI = 0 /\ currJ = 0)
    /\ currMatrix = MARRAY
    /\ alignmentJ' = Append(alignmentJ, CharAt(seqJ, currJ - 1))
    /\ alignmentI' = Append(alignmentI, CharAt(seqI, currI - 1))
    /\ matchCount' = IF CharAt(seqJ, currJ - 1) = CharAt(seqI, currI - 1)
                     THEN matchCount + 1 ELSE matchCount
    /\ AfterStep(Decrement(currI), Decrement(currJ), Get(mPointer, idx(currI, currJ)))
    /\ UNCHANGED <<inputVars, planeVars, fillVars, result, cy, fis, mm, pageVars>>

TracebackJ ==
    /\ pc = "traceback"
    /\ ~(currI = 0 /\ currJ = 0)
    /\ currMatrix = JARRAY
    /\ alignmentJ' = Append(alignmentJ, Gap)
    /\ alignmentI' = Append(alignmentI, CharAt(seqI, currI - 1))
    /\ AfterStep(Decrement(currI), currJ, Get(jPointer, idx(currI, currJ)))
    /\ UNCHANGED <<inputVars, planeVars, fillVars, matchCount, result, cy, fis, mm, pageVars>>

TracebackI ==
    /\ pc = "traceback"
    /\ ~(currI = 0 /\ currJ = 0)
    /\ currMatrix = IARRAY
    /\ alignmentJ' = Append(alignmentJ, CharAt(seqJ, currJ - 1))
    /\ alignmentI' = Append(alignmentI, Gap)
    /\ AfterStep(currI, Decrement(currJ), Get(iPointer, idx(currI, currJ)))
    /\ UNCHANGED <<inputVars, planeVars, fillVars, matchCount, result, cy, fis, mm, pageVars>>

\* throw new Error(`Invalid traceback state ...`)
ThrowInvalidTraceback ==
    /\ pc = "traceback"
    /\ ~(currI = 0 /\ currJ = 0)
    /\ currMatrix \notin {MARRAY, JARRAY, IARRAY}
    /\ pc' = "cy_start"
    /\ outcome' = "threw_traceback"
    /\ UNCHANGED <<inputVars, planeVars, fillVars, tracebackVars, result, cy, fis, mm, pageVars>>

\* Math.round(x) for x = num / den >= 0: the nearest integer, halves upwards
MathRound(num, den) == (2 * num + den) \div (2 * den)

\* Math.round(matchPercentage * 1000) / 1000, in thousandths
RoundedPercentage(matches, columns) ==
    IF columns > 0 THEN MathRound(100 * matches * 1000, columns) ELSE 0

\* the return that also clears the incentive vector it was given
Return_clearsIncentive ==
    /\ pc = "traceback"
    /\ currI = 0 /\ currJ = 0
    /\ result' = [alignedSeqJ |-> Join(Reverse(alignmentJ)),
                  alignedSeqI |-> Join(Reverse(alignmentI)),
                  matchPercentage |-> RoundedPercentage(matchCount, alignCounter)]
    /\ pc' = "cy_start"
    /\ outcome' = "returned"
    /\ gapIncentive' = ZeroVec(Len(gapIncentive))
    /\ UNCHANGED <<seqJ, seqI, matrix, gapOpen, gapExtend, planeVars, fillVars,
                   tracebackVars, cy, fis, mm, pageVars>>

Return ==
    /\ pc = "traceback"
    /\ currI = 0 /\ currJ = 0
    /\ result' = [alignedSeqJ |-> Join(Reverse(alignmentJ)),
                  alignedSeqI |-> Join(Reverse(alignmentI)),
                  matchPercentage |-> RoundedPercentage(matchCount, alignCounter)]
    /\ pc' = "cy_start"
    /\ outcome' = "returned"
    /\ UNCHANGED <<inputVars, planeVars, fillVars, tracebackVars, cy, fis, mm, pageVars>>

\* ------------------------------------------------------------------------
\* The Cython reference global_align.  Its fill is the fill above statement
\* for statement, on planes created with np.empty: a cell no statement
\* assigns holds whatever the memory held.  Its traceback differs: it carries
\* the characters ci, cj from one iteration to the next and writes the
\* columns to two malloc'ed buffers of max_i + max_j + 1 bytes.
\* ------------------------------------------------------------------------
\* what an unassigned pointer cell can hold: a plane tag, or anything else (0)
Garbage == {0, MARRAY, IARRAY, JARRAY}

\* iPointer[i, j]: column 0 is never assigned
CyIPointer(i, j) == IF j = 0 THEN Garbage ELSE {Get(iPointer, idx(i, j))}

\* jPointer[i, j]: row 0 is never assigned
CyJPointer(i, j) == IF i = 0 THEN Garbage ELSE {Get(jPointer, idx(i, j))}

CyMPointer(i, j) == {Get(mPointer, idx(i, j))}

\* if i > 1: i -= 1; ci = seqi[i - 1]  else: i = 0; ci = seqi[i]
CyDecrement(k) == IF k > 1 THEN k - 1 ELSE 0
CyCarried(seq, k) == IF k > 1 THEN seq[k - 1] ELSE seq[1]

\* round(x, 3) for x = 100 * num / den: the nearest thousandth, halves to even
PyRound(num, den) ==
    LET q == (100 * num * 1000) \div den
        r == (100 * num * 1000) % den
    IN  IF 2 * r > den \/ (2 * r = den /\ q % 2 = 1) THEN q + 1 ELSE q

cyVarsUnchanged == UNCHANGED <<inputVars, outcome, planeVars, fillVars,
                               tracebackVars, result, fis, mm, pageVars>>

\* With an empty sequence the fill and seqi[i - 1] index out of bounds
\* (boundscheck is off): undefined behaviour.
CyStart ==
    /\ pc = "cy_start"
    /\ IF maxI = 0 \/ maxJ = 0
       THEN /\ cy' = [cy EXCEPT !.status = "undefined"]
            /\ pc' = "cy_done"
       ELSE /\ cy' = [cy EXCEPT
                        !.status = "traceback",
                        !.i = maxI, !.j = maxJ,
                        !.ci = seqI[maxI], !.cj = seqJ[maxJ],
                        !.currMatrix = ChoosePlane(Get(mScore, idx(maxI, maxJ)),
                                                   Get(iScore, idx(maxI, maxJ)),
                                                   Get(jScore, idx(maxI, maxJ)))]
            /\ pc' = "cy_traceback"
    /\ cyVarsUnchanged

CyInLoop ==
    /\ pc = "cy_traceback"
    /\ ~(cy.i = 0 /\ cy.j = 0)

\* the column fits the buffers
CyRoom == cy.align_counter < maxI + maxJ + 1

CyTracebackM ==
    /\ CyInLoop /\ CyRoom
    /\ cy.currMatrix = MARRAY
    /\ \E ptr \in CyMPointer(cy.i, cy.j) :
         cy' = [cy EXCEPT
                  !.currMatrix = ptr,
                  !.align_j = Append(@, cy.cj),
                  !.align_i = Append(@, cy.ci),
                  !.matchCount = IF cy.cj = cy.ci THEN @ + 1 ELSE @,
                  !.i = CyDecrement(cy.i), !.ci = CyCarried(seqI, cy.i),
                  !.j = CyDecrement(cy.j), !.cj = CyCarried(seqJ, cy.j),
                  !.align_counter = @ + 1]
    /\ pc' = pc
    /\ cyVarsUnchanged

CyTracebackJ ==
    /\ CyInLoop /\ CyRoom
    /\ cy.currMatrix = JARRAY
    /\ \E ptr \in CyJPointer(cy.i, cy.j) :
         cy' = [cy EXCEPT
                  !.currMatrix = ptr,
                  !.align_j = Append(@, Gap),
                  !.align_i = Append(@, cy.ci),
                  !.i = CyDecrement(cy.i), !.ci = CyCarried(seqI, cy.i),
                  !.align_counter = @ + 1]
    /\ pc' = pc
    /\ cyVarsUnchanged

CyTracebackI ==
    /\ CyInLoop /\ CyRoom
    /\ cy.currMatrix = IARRAY
    /\ \E ptr \in CyIPointer(cy.i, cy.j) :
         cy' = [cy EXCEPT
                  !.currMatrix = ptr,
                  !.align_j = Append(@, cy.cj),
                  !.align_i = Append(@, Gap),
                  !.j = CyDecrement(cy.j), !.cj = CyCarried(seqJ, cy.j),
                  !.align_counter = @ + 1]
    /\ pc' = pc
    /\ cyVarsUnchanged

\* raise Exception('wtf4!:pointer: %i', i)
CyRaise ==
    /\ CyInLoop
    /\ cy.currMatrix \notin {MARRAY, JARRAY, IARRAY}
    /\ cy' = [cy EXCEPT !.status = "raised"]
    /\ pc' = "cy_done"
    /\ cyVarsUnchanged

\* a write past the end of tmp_align_j / tmp_align_i: undefined behaviour
CyOverflow ==
    /\ CyInLoop /\ ~CyRoom
    /\ cy.currMatrix \in {MARRAY, JARRAY, IARRAY}
    /\ cy' = [cy EXCEPT !.status = "undefined"]
    /\ pc' = "cy_done"
    /\ cyVarsUnchanged

CyReturn ==
    /\ pc = "cy_traceback"
    /\ cy.i = 0 /\ cy.j = 0
    /\ cy' = [cy EXCEPT
                !.status = "returned",
                !.result = [alignedSeqJ |-> Reverse(cy.align_j),
                            alignedSeqI |-> Reverse(cy.align_i),
                            matchPercentage |-> PyRound(cy.matchCount,
                                                        cy.align_counter)]]
    /\ pc' = "cy_done"
    /\ cyVarsUnchanged

NextCython ==
    \/ CyStart
    \/ CyTracebackM
    \/ CyTracebackJ
    \/ CyTracebackI
    \/ CyRaise
    \/ CyOverflow
    \/ CyReturn

NextJS ==
    \/ ThrowLengthMismatch
    \/ Allocate
    \/ InitBoundary
    \/ InteriorCell
    \/ LastColumnCell
    \/ LastRowCell
    \/ StartTraceback
    \/ TracebackM
    \/ TracebackJ
    \/ TracebackI
    \/ ThrowInvalidTraceback
    \/ Return

Next == NextJS \/ NextCython

Spec == Init /\ [][Next]_vars

\* ------------------------------------------------------------------------
\* findIndelsSubstitutions(readSeqAl, refSeqAl, includeIndx)
\* ------------------------------------------------------------------------
\* the integers from, from + 1, ..., to - 1 in order: what
\* for (let i = from; i < to; i++) push(i) appends
Range(from, to) == IF to > from THEN [k \in 1..(to - from) |-> from + k - 1] ELSE <<>>

\* a membership test that starts at the second element
Includes_skipFirst(includeIndx, x) == \E k \in 2..Len(includeIndx) : includeIndx[k] = x

\* includeIndx.includes(x), includeIndxSet.has(x)
Includes(includeIndx, x) == \E k \in 1..Len(includeIndx) : includeIndx[k] = x

RECURSIVE SumSeq(_)
\* sizes.reduce((sum, val) => sum + val, 0)
SumSeq(sizes) == IF sizes = <<>> THEN 0 ELSE sizes[1] + SumSeq(Tail(sizes))

\* the locals of the function on entry
FisEntry(readSeqAl, refSeqAl, includeIndx) ==
    [status |-> "loop",
     readSeqAl |-> readSeqAl, refSeqAl |-> refSeqAl, includeIndx |-> includeIndx,
     idxC |-> 0, idx |-> 0, currentInsertionSize |-> 0,
     startDeletion |-> -1, startInsertion |-> -1,
     refPositions |-> <<>>,
     allSubstitutionPositions |-> <<>>, substitutionPositions |-> <<>>,
     allSubstitutionValues |-> <<>>, substitutionValues |-> <<>>,
     allDeletionPositions |-> <<>>, allDeletionCoordinates |-> <<>>,
     deletionPositions |-> <<>>, deletionCoordinates |-> <<>>, deletionSizes |-> <<>>,
     allInsertionPositions |-> <<>>, allInsertionLeftPositions |-> <<>>,
     insertionPositions |-> <<>>, insertionCoordinates |-> <<>>,
     insertionSizes |-> <<>>,
     substitutionN |-> 0, deletionN |-> 0, insertionN |-> 0]

\* the substitution check without the test for a read base N
RecordSubstitution_countN(f) ==
    LET r == CharAt(f.readSeqAl, f.idxC)
    IN  IF CharAt(f.refSeqAl, f.idxC) # r /\ r # Gap
        THEN [f EXCEPT
                !.allSubstitutionPositions = Append(@, f.idx),
                !.allSubstitutionValues = Append(@, r),
                !.substitutionPositions =
                    IF Includes(f.includeIndx, f.idx) THEN Append(@, f.idx) ELSE @,
                !.substitutionValues =
                    IF Includes(f.includeIndx, f.idx) THEN Append(@, r) ELSE @]
        ELSE f

\* if (refSeqAl[idxC] !== readSeqAl[idxC] && readSeqAl[idxC] !== '-' && ... 'N')
RecordSubstitution(f) ==
    LET r == CharAt(f.readSeqAl, f.idxC)
    IN  IF CharAt(f.refSeqAl, f.idxC) # r /\ r # Gap /\ r # "N"
        THEN [f EXCEPT
                !.allSubstitutionPositions = Append(@, f.idx),
                !.allSubstitutionValues = Append(@, r),
                !.substitutionPositions =
                    IF Includes(f.includeIndx, f.idx) THEN Append(@, f.idx) ELSE @,
                !.substitutionValues =
                    IF Includes(f.includeIndx, f.idx) THEN Append(@, r) ELSE @]
        ELSE f

\* the insertion record windowed when either end is included
CloseInsertion_eitherEnd(f) ==
    IF f.startInsertion # -1
    THEN LET inWindow == Includes(f.includeIndx, f.startInsertion)
                            \/ Includes(f.includeIndx, f.idx)
         IN  [f EXCEPT
                !.allInsertionLeftPositions = Append(@, f.startInsertion),
                !.allInsertionPositions = @ \o <<f.startInsertion, f.idx>>,
                !.insertionCoordinates =
                    IF inWindow THEN Append(@, <<f.startInsertion, f.idx>>) ELSE @,
                !.insertionPositions =
                    IF inWindow THEN @ \o <<f.startInsertion, f.idx>> ELSE @,
                !.insertionSizes =
                    IF inWindow THEN Append(@, f.currentInsertionSize) ELSE @,
                !.startInsertion = -1]
    ELSE f

\* if (startInsertion !== -1) { ... }
CloseInsertion(f) ==
    IF f.startInsertion # -1
    THEN LET inWindow == Includes(f.includeIndx, f.startInsertion)
                            /\ Includes(f.includeIndx, f.idx)
         IN  [f EXCEPT
                !.allInsertionLeftPositions = Append(@, f.startInsertion),
                !.allInsertionPositions = @ \o <<f.startInsertion, f.idx>>,
                !.insertionCoordinates =
                    IF inWindow THEN Append(@, <<f.startInsertion, f.idx>>) ELSE @,
                !.insertionPositions =
                    IF inWindow THEN @ \o <<f.startInsertion, f.idx>> ELSE @,
                !.insertionSizes =
                    IF inWindow THEN Append(@, f.currentInsertionSize) ELSE @,
                !.startInsertion = -1]
    ELSE f

\* the branch with idx advanced before the substitution and insertion records
ReferenceColumn_incrementFirst(f) ==
    IF CharAt(f.refSeqAl, f.idxC) # Gap
    THEN LET f1 == [f EXCEPT !.refPositions = Append(@, f.idx), !.idx = @ + 1]
             f2 == CloseInsertion(RecordSubstitution(f1))
         IN  [f2 EXCEPT !.currentInsertionSize = 0]
    ELSE [f EXCEPT
            !.refPositions = Append(@, IF f.idx = 0 THEN -1 ELSE -f.idx),
            !.startInsertion = IF f.idx > 0 /\ @ = -1 THEN f.idx - 1 ELSE @,
            !.currentInsertionSize = @ + 1]

\* the branch without the -1 sentinel for idx = 0
ReferenceColumn_noSentinel(f) ==
    IF CharAt(f.refSeqAl, f.idxC) # Gap
    THEN LET f1 == [f EXCEPT !.refPositions = Append(@, f.idx)]
             f2 == CloseInsertion(RecordSubstitution(f1))
         IN  [f2 EXCEPT !.currentInsertionSize = 0, !.idx = @ + 1]
    ELSE [f EXCEPT
            !.refPositions = Append(@, -f.idx),
            !.startInsertion = IF f.idx > 0 /\ @ = -1 THEN f.idx - 1 ELSE @,
            !.currentInsertionSize = @ + 1]

\* the branch on the reference character of column idxC
ReferenceColumn(f) ==
    IF CharAt(f.refSeqAl, f.idxC) # Gap
    THEN LET f1 == [f EXCEPT !.refPositions = Append(@, f.idx)]
             f2 == CloseInsertion(RecordSubstitution(f1))
         IN  [f2 EXCEPT !.currentInsertionSize = 0, !.idx = @ + 1]
    ELSE [f EXCEPT
            !.refPositions = Append(@, IF f.idx = 0 THEN -1 ELSE -f.idx),
            !.startInsertion = IF f.idx > 0 /\ @ = -1 THEN f.idx - 1 ELSE @,
            !.currentInsertionSize = @ + 1]

\* the deletion record with the last deleted coordinate as its end
CloseDeletion_inclusiveEnd(f, endDeletion) ==
    LET inWindow == \E i \in f.startDeletion..(endDeletion - 1) :
                        Includes(f.includeIndx, i)
    IN  [f EXCEPT
           !.allDeletionPositions = @ \o Range(f.startDeletion, endDeletion),
           !.allDeletionCoordinates = Append(@, <<f.startDeletion, endDeletion - 1>>),
           !.deletionPositions =
               IF inWindow THEN @ \o Range(f.startDeletion, endDeletion) ELSE @,
           !.deletionCoordinates =
               IF inWindow THEN Append(@, <<f.startDeletion, endDeletion - 1>>) ELSE @,
           !.deletionSizes =
               IF inWindow THEN Append(@, endDeletion - f.startDeletion) ELSE @]

\* records the deletion [startDeletion, endDeletion)
CloseDeletion(f, endDeletion) ==
    LET inWindow == \E i \in f.startDeletion..(endDeletion - 1) :
                        Includes(f.includeIndx, i)
    IN  [f EXCEPT
           !.allDeletionPositions = @ \o Range(f.startDeletion, endDeletion),
           !.allDeletionCoordinates = Append(@, <<f.startDeletion, endDeletion>>),
           !.deletionPositions =
               IF inWindow THEN @ \o Range(f.startDeletion, endDeletion) ELSE @,
           !.deletionCoordinates =
               IF inWindow THEN Append(@, <<f.startDeletion, endDeletion>>) ELSE @,
           !.deletionSizes =
               IF inWindow THEN Append(@, endDeletion - f.startDeletion) ELSE @]

\* the deletion check of column idxC (f.refPositions already holds the
\* column's entry)
DeletionColumn(f) ==
    LET r == CharAt(f.readSeqAl, f.idxC)
    IN  IF r = Gap /\ f.startDeletion = -1
        THEN [f EXCEPT !.startDeletion =
                  IF f.idxC - 1 > 0 THEN f.refPositions[f.idxC + 1] ELSE 0]
        ELSE IF r # Gap /\ f.startDeletion # -1
        THEN [CloseDeletion(f, f.refPositions[f.idxC + 1]) EXCEPT !.startDeletion = -1]
        ELSE f

\* one iteration that keeps the running insertion size at a reference base
FisColumnStep_sizeNotReset(f) ==
    LET g == DeletionColumn(ReferenceColumn(f))
    IN  [g EXCEPT !.idxC = @ + 1,
                  !.currentInsertionSize =
                      IF CharAt(f.refSeqAl, f.idxC) # Gap
                      THEN f.currentInsertionSize ELSE @]

\* one iteration of: for (let idxC = 0; idxC < seqLen; idxC++)
FisColumnStep(f) == [DeletionColumn(ReferenceColumn(f)) EXCEPT !.idxC = @ + 1]

\* the statements after the loop
FisEpilogue(f) ==
    LET f1 == IF f.startDeletion # -1
              THEN CloseDeletion(f, f.refPositions[Len(f.refSeqAl)])
              ELSE f
    IN  [f1 EXCEPT
           !.status = "returned",
           !.substitutionN = Len(f1.substitutionPositions),
           !.deletionN = SumSeq(f1.deletionSizes),
           !.insertionN = SumSeq(f1.insertionSizes)]

\* every reference coordinate
AllReferenceCoordinates == [k \in 1..maxI |-> k - 1]

\* findIndelsSubstitutions(result.alignedSeqJ, result.alignedSeqI, <all>)
FisCall ==
    /\ pc = "cy_done"
    /\ outcome = "returned"
    /\ fis' = FisEntry(result.alignedSeqJ, result.alignedSeqI, AllReferenceCoordinates)
    /\ pc' = "fis"
    /\ UNCHANGED <<inputVars, outcome, planeVars, fillVars, tracebackVars, result, cy, mm, pageVars>>

FisColumn ==
    /\ pc = "fis"
    /\ fis.status = "loop"
    /\ fis.idxC < Len(fis.refSeqAl)
    /\ fis' = FisColumnStep(fis)
    /\ UNCHANGED <<alignVars, cy, mm, pageVars>>

FisReturn ==
    /\ pc = "fis"
    /\ fis.status = "loop"
    /\ fis.idxC >= Len(fis.refSeqAl)
    /\ fis' = FisEpilogue(fis)
    /\ UNCHANGED <<alignVars, cy, mm, pageVars>>

NextFis ==
    \/ FisCall
    \/ FisColumn
    \/ FisReturn

\* ------------------------------------------------------------------------
\* The documented scenarios: the cases of the unit tests and of the
\* comparison with the reference (gap penalties -1, -1 and -20, -2)
\* ------------------------------------------------------------------------
IncentiveHigh == 100

ATCG == <<"A", "T", "C", "G">>

Scenarios ==
    {[J |-> ATCG \o ATCG, I |-> ATCG \o ATCG, inc |-> ZeroVec(9), g |-> <<-1, -1>>],
     [J |-> <<"A", "T", "C", "T">> \o ATCG, I |-> ATCG \o ATCG,
      inc |-> ZeroVec(9), g |-> <<-1, -1>>],
     [J |-> ATCG \o <<"A">> \o ATCG, I |-> ATCG \o ATCG,
      inc |-> ZeroVec(9), g |-> <<-1, -1>>],
     [J |-> ATCG \o <<"T", "C", "G">>, I |-> ATCG \o ATCG,
      inc |-> ZeroVec(9), g |-> <<-1, -1>>],
     [J |-> ATCG \o <<"C", "G">>, I |-> ATCG \o ATCG \o ATCG,
      inc |-> ZeroVec(13), g |-> <<-1, -1>>],
     [J |-> <<"A", "T", "C", "N">> \o ATCG, I |-> ATCG \o ATCG,
      inc |-> ZeroVec(9), g |-> <<-1, -1>>],
     [J |-> [k \in 1..10 |-> "A"], I |-> [k \in 1..10 |-> "T"],
      inc |-> ZeroVec(11), g |-> <<-1, -1>>],
     [J |-> ATCG \o ATCG, I |-> ATCG \o ATCG, inc |-> ZeroVec(8), g |-> <<-1, -1>>]}
    \cup
    {[J |-> ATCG \o ATCG, I |-> ATCG \o ATCG \o ATCG,
      inc |-> SpikeVec(13, pos, IncentiveHigh), g |-> g] :
        pos \in 1..11, g \in GapPenalties}

InitScenarios ==
    /\ \E sc \in Scenarios :
          /\ seqJ = sc.J
          /\ seqI = sc.I
          /\ gapIncentive = sc.inc
          /\ gapOpen = sc.g[1]
          /\ gapExtend = sc.g[2]
    /\ CallState

NextScenarios == Next \/ NextFis

SpecScenarios == InitScenarios /\ [][NextScenarios]_vars

\* ------------------------------------------------------------------------
\* Properties of globalAlign
\* ------------------------------------------------------------------------
\* a string without its '-' characters
Degap(s) == SelectSeq(s, LAMBDA c : c # Gap)

\* n gap characters
GapRun(n) == [k \in 1..n |-> Gap]

ValidCall == Len(gapIncentive) = maxI + 1

Returned == outcome = "returned"

PlanesUnallocated ==
    /\ mScore = <<>> /\ iScore = <<>> /\ jScore = <<>>
    /\ mPointer = <<>> /\ iPointer = <<>> /\ jPointer = <<>>
    /\ assigned = EmptyBag

\* the columns in which the two strings hold the same character
EqualColumns(a, b) == {c \in 1..Len(a) : c <= Len(b) /\ a[c] = b[c]}

\* C1: every returned result has aligned strings of the same length and no
\* column with '-' in both.
C1_EqualLengthNoDoubleGap ==
    Returned =>
        /\ Len(result.alignedSeqI) = Len(result.alignedSeqJ)
        /\ \A c \in 1..Len(result.alignedSeqI) :
              ~(result.alignedSeqI[c] = Gap /\ result.alignedSeqJ[c] = Gap)

\* C2: removing the '-' characters from the returned aligned reference gives
\* seqI and from the returned aligned read gives seqJ.
C2_DegapRestoresInputs ==
    Returned =>
        /\ Degap(result.alignedSeqI) = seqI
        /\ Degap(result.alignedSeqJ) = seqJ

C2_Witness ==
    /\ Returned
    /\ maxI >= 2 /\ maxJ >= 2
    /\ \E c \in 1..Len(result.alignedSeqI) : result.alignedSeqI[c] = Gap
    /\ \E c \in 1..Len(result.alignedSeqJ) : result.alignedSeqJ[c] = Gap

\* C3: for non-empty sequences, an incentive vector of the right length and
\* negative gap penalties, the traceback only ever holds a plane tag in
\* {M, I, J} and never throws 'Invalid traceback state'.
C3_TracebackTagValid ==
    (maxI >= 1 /\ maxJ >= 1 /\ ValidCall /\ gapOpen < 0 /\ gapExtend < 0) =>
        /\ outcome # "threw_traceback"
        /\ (pc = "traceback" /\ ~(currI = 0 /\ currJ = 0)) =>
              currMatrix \in {MARRAY, IARRAY, JARRAY}

\* C4: with an empty read or an empty reference the call terminates and
\* returns the non-empty sequence opposite as many '-'; with both empty it
\* returns two empty strings and 0.
C4_EmptyInputs ==
    (ValidCall /\ (maxI = 0 \/ maxJ = 0)) =>
        /\ outcome \in {"running", "returned"}
        /\ Returned =>
              /\ result.alignedSeqI = (IF maxI > 0 THEN seqI ELSE GapRun(maxJ))
              /\ result.alignedSeqJ = (IF maxJ > 0 THEN seqJ ELSE GapRun(maxI))
              /\ (maxI = 0 /\ maxJ = 0) => result.matchPercentage = 0

IdentityResult ==
    /\ Returned
    /\ result.alignedSeqI = seqI
    /\ result.alignedSeqJ = seqJ
    /\ result.matchPercentage = 100000

C6_SameAsCython ==
    (pc = "cy_done" /\ maxI >= 1 /\ maxJ >= 1 /\ ValidCall
        /\ cy.status = "returned") =>
        /\ Returned
        /\ result.alignedSeqJ = cy.result.alignedSeqJ
        /\ result.alignedSeqI = cy.result.alignedSeqI
        /\ result.matchPercentage - cy.result.matchPercentage \in -10..10

\* C7: with an incentive vector of the wrong length the call throws before
\* any plane is allocated or any score computed, and returns nothing.
C7_LengthMismatchFailsFast ==
    ~ValidCall =>
        /\ PlanesUnallocated
        /\ result = NoResult
        /\ outcome \in {"running", "threw_length"}
        /\ pc # "start" => outcome = "threw_length"

C7_Witness == outcome = "threw_length" /\ maxI >= 1 /\ maxJ >= 1

\* C8: the returned matchPercentage is 100 * (columns with equal characters)
\* / (aligned length) rounded to three decimals, lies in [0, 100], and is 0
\* for an aligned length of 0.
C8_PercentageFormula ==
    Returned =>
        /\ result.matchPercentage =
              RoundedPercentage(
                  Cardinality(EqualColumns(result.alignedSeqI, result.alignedSeqJ)),
                  Len(result.alignedSeqI))
        /\ result.matchPercentage \in 0..100000
        /\ Len(result.alignedSeqI) = 0 => result.matchPercentage = 0

\* ------------------------------------------------------------------------
\* Properties of the documented scenarios
\* ------------------------------------------------------------------------
\* the columns of s that hold '-', counted from 0
GapColumns(s) == {c \in 0..(Len(s) - 1) : s[c + 1] = Gap}

\* C9: with incentive 100 at one interior reference column k and a read that
\* is the periodic reference less 4 consecutive bases, the aligned reference
\* has no gap and the aligned read has one gap run, 4 columns long, at
\* reference column k.
C9_GapMovesToIncentive ==
    \A k \in 1..11 :
        (/\ seqI = ATCG \o ATCG \o ATCG
         /\ seqJ = ATCG \o ATCG
         /\ gapIncentive = SpikeVec(13, k, IncentiveHigh)
         /\ outcome # "running")
        => /\ Returned
           /\ result.alignedSeqI = seqI
           /\ Degap(result.alignedSeqJ) = seqJ
           /\ \E s \in 0..8 :
                 /\ GapColumns(result.alignedSeqJ) = s..(s + 3)
                 /\ s <= k /\ k <= s + 4

\* C10: read ATCGAATCG against reference ATCGATCG (zero incentive, gap
\* penalties -1, -1) returns ATCG-ATCG / ATCGAATCG, and
\* findIndelsSubstitutions over all reference coordinates reports one
\* insertion of size 1 with coordinates (3, 4), no deletion, no substitution.
C10_SingleInsertion ==
    (/\ seqJ = ATCG \o <<"A">> \o ATCG
     /\ seqI = ATCG \o ATCG
     /\ gapIncentive = ZeroVec(9)
     /\ gapOpen = -1 /\ gapExtend = -1)
    => /\ outcome \in {"running", "returned"}
       /\ Returned =>
             /\ result.alignedSeqI = ATCG \o <<Gap>> \o ATCG
             /\ result.alignedSeqJ = seqJ
       /\ fis.status = "returned" =>
             /\ fis.insertionCoordinates = <<(<<3, 4>>)>>
             /\ fis.insertionSizes = <<1>>
             /\ fis.insertionN = 1
             /\ fis.allInsertionLeftPositions = <<3>>
             /\ fis.allDeletionCoordinates = <<>>
             /\ fis.deletionN = 0
             /\ fis.allSubstitutionPositions = <<>>
             /\ fis.substitutionN = 0

\* the call of the documented scenarios: default matrix, zero incentive,
\* gap penalties -1, -1
ScenarioCall(read, ref) ==
    /\ seqJ = read
    /\ seqI = ref
    /\ gapIncentive = ZeroVec(Len(ref) + 1)
    /\ gapOpen = -1 /\ gapExtend = -1

FisReturned == pc = "fis" /\ fis.status = "returned"

\* C11: read ATCGTCG against reference ATCGATCG returns ATCGATCG /
\* ATCG-TCG, and findIndelsSubstitutions over all reference coordinates
\* reports one deletion [4, 5) of size 1, no insertion, no substitution.
C11_SingleDeletion ==
    ScenarioCall(ATCG \o <<"T", "C", "G">>, ATCG \o ATCG)
    => /\ outcome \in {"running", "returned"}
       /\ Returned =>
             /\ result.alignedSeqI = seqI
             /\ result.alignedSeqJ = ATCG \o <<Gap, "T", "C", "G">>
       /\ fis.status = "returned" =>
             /\ fis.deletionCoordinates = <<(<<4, 5>>)>>
             /\ fis.allDeletionCoordinates = <<(<<4, 5>>)>>
             /\ fis.deletionSizes = <<1>>
             /\ fis.deletionN = 1
             /\ fis.allInsertionPositions = <<>>
             /\ fis.insertionN = 0
             /\ fis.allSubstitutionPositions = <<>>
             /\ fis.substitutionN = 0

C11_Witness ==
    /\ ScenarioCall(ATCG \o <<"T", "C", "G">>, ATCG \o ATCG)
    /\ FisReturned
    /\ fis.deletionN = 1

\* C12: read ATCGCG against reference ATCGATCGATCG returns ATCGATCGATCG /
\* ATCG------CG: the six missing bases form one gap run in the read.
C12_ConsecutiveGaps ==
    ScenarioCall(ATCG \o <<"C", "G">>, ATCG \o ATCG \o ATCG)
    => /\ outcome \in {"running", "returned"}
       /\ Returned =>
             /\ result.alignedSeqI = seqI
             /\ result.alignedSeqJ = ATCG \o GapRun(6) \o <<"C", "G">>

\* C13: read ATCNATCG against reference ATCGATCG returns both inputs
\* unchanged with 87.5, and findIndelsSubstitutions records no substitution
\* in either list.
C13_NIsNoSubstitution ==
    ScenarioCall(<<"A", "T", "C", "N">> \o ATCG, ATCG \o ATCG)
    => /\ outcome \in {"running", "returned"}
       /\ Returned =>
             /\ result.alignedSeqI = seqI
             /\ result.alignedSeqJ = seqJ
             /\ result.matchPercentage = 87500
       /\ fis.status = "returned" =>
             /\ fis.allSubstitutionPositions = <<>>
             /\ fis.allSubstitutionValues = <<>>
             /\ fis.substitutionPositions = <<>>
             /\ fis.substitutionValues = <<>>
             /\ fis.substitutionN = 0

C13_Witness ==
    /\ ScenarioCall(<<"A", "T", "C", "N">> \o ATCG, ATCG \o ATCG)
    /\ FisReturned
    /\ result.matchPercentage = 87500

\* ------------------------------------------------------------------------
\* makeMatrix on its own: a call with four scores, then reads of its cells
\* ------------------------------------------------------------------------
MatrixScores == {<<5, -4, -2, -1>>, <<2, -3, -1, 1>>, <<1, -1, -2, -3>>, <<10, 9, 8, 7>>}

\* byte codes read back: NUL, '-', A, C, G, N, T, a, n, t, 255
ProbeCodes == {0, 45, 65, 67, 71, 78, 84, 97, 110, 116, 255}

\* the matrix of the call in progress
MadeMatrix == makeMatrix(mm.matchScore, mm.mismatchScore, mm.nMismatchScore,
                         mm.nMatchScore)

InitMatrix ==
    /\ seqJ = <<>> /\ seqI = <<>> /\ gapIncentive = <<0>>
    /\ matrix = DefaultCells
    /\ gapOpen = -1 /\ gapExtend = -1
    /\ pc = "matrix"
    /\ outcome = "running"
    /\ mScore = <<>> /\ iScore = <<>> /\ jScore = <<>>
    /\ mPointer = <<>> /\ iPointer = <<>> /\ jPointer = <<>>
    /\ assigned = EmptyBag
    /\ fi = 0 /\ fj = 0
    /\ currI = 0 /\ currJ = 0 /\ currMatrix = 0
    /\ alignmentJ = <<>> /\ alignmentI = <<>>
    /\ matchCount = 0 /\ alignCounter = 0
    /\ result = NoResult
    /\ cy = CyIdle
    /\ fis = FisIdle
    /\ sg = SgIdle
    /\ ui = UiIdle
    /\ \E sc \in MatrixScores :
          mm = [status |-> "called", matchScore |-> sc[1], mismatchScore |-> sc[2],
                nMismatchScore |-> sc[3], nMatchScore |-> sc[4],
                x |-> 0, y |-> 0, value |-> 0]

\* return matrix
MakeMatrixReturn ==
    /\ pc = "matrix"
    /\ mm.status = "called"
    /\ mm' = [mm EXCEPT !.status = "made"]
    /\ UNCHANGED <<alignVars, cy, fis, pageVars>>

\* matrix[x * matSize + y]
ReadCell ==
    /\ pc = "matrix"
    /\ mm.status \in {"made", "read"}
    /\ \E x, y \in ProbeCodes :
          mm' = [mm EXCEPT !.status = "read", !.x = x, !.y = y,
                           !.value = MadeMatrix[x * matSize + y]]
    /\ UNCHANGED <<alignVars, cy, fis, pageVars>>

NextMatrix ==
    \/ MakeMatrixReturn
    \/ ReadCell

SpecMatrix == InitMatrix /\ [][NextMatrix]_vars

\* the value the documentation gives for cell (x, y)
DocumentedCell(x, y) ==
    LET nuc == {65, 84, 67, 71}
        n == 78
    IN  IF x \in nuc /\ y \in nuc
        THEN IF x = y THEN mm.matchScore ELSE mm.mismatchScore
        ELSE IF (x = n /\ y \in nuc) \/ (x \in nuc /\ y = n) THEN mm.nMismatchScore
        ELSE IF x = n /\ y = n THEN mm.nMatchScore
        ELSE 0

\* C14: every cell (x, y) of makeMatrix, x and y in 0..255, holds match on
\* the A,T,C,G diagonal, mismatch for two different bases of A,T,C,G,
\* nMismatch for N against a base, nMatch for N against N and 0 elsewhere; the
\* table is symmetric.
C14_MatrixCells ==
    /\ mm.status = "made" =>
          \A x, y \in 0..(matSize - 1) :
              /\ MadeMatrix[x * matSize + y] = DocumentedCell(x, y)
              /\ MadeMatrix[x * matSize + y] = MadeMatrix[y * matSize + x]
    /\ mm.status = "read" => mm.value = DocumentedCell(mm.x, mm.y)

C14_Witness ==
    /\ mm.status = "read"
    /\ mm.x = 78 /\ mm.y = 84
    /\ mm.value = mm.nMismatchScore
    /\ mm.nMismatchScore # 0

\* ------------------------------------------------------------------------
\* findIndelsSubstitutions on its own: every aligned pair up to MaxAlnLen
\* columns that satisfies the aligner invariants, with every include set of
\* reference coordinates
\* ------------------------------------------------------------------------
MaxAlnLen == 4

\* <<reference character, read character>>: a match, a substitution, a read
\* N, a deleted base, a reference N against a base and against N, and two
\* inserted bases; never '-' in both
Columns ==
    {<<"A", "A">>, <<"A", "T">>, <<"A", "N">>, <<"A", Gap>>,
     <<"N", "A">>, <<"N", "N">>, <<Gap, "A">>, <<Gap, "T">>}

AlignedPairs(n) == UNION {[1..m -> Columns] : m \in 0..n}

\* the number of reference bases of an alignment
RefLength(refSeqAl) == Len(SelectSeq(refSeqAl, LAMBDA c : c # Gap))

\* the include sets over the coordinates 0..n-1, in ascending order
IncludeSets(n) ==
    {SelectSeq([k \in 1..n |-> k - 1], LAMBDA x : x \in S) : S \in SUBSET (0..(n - 1))}

InitFis ==
    /\ seqJ = <<>> /\ seqI = <<>> /\ gapIncentive = <<0>>
    /\ matrix = DefaultCells
    /\ gapOpen = -1 /\ gapExtend = -1
    /\ pc = "fis"
    /\ outcome = "running"
    /\ mScore = <<>> /\ iScore = <<>> /\ jScore = <<>>
    /\ mPointer = <<>> /\ iPointer = <<>> /\ jPointer = <<>>
    /\ assigned = EmptyBag
    /\ fi = 0 /\ fj = 0
    /\ currI = 0 /\ currJ = 0 /\ currMatrix = 0
    /\ alignmentJ = <<>> /\ alignmentI = <<>>
    /\ matchCount = 0 /\ alignCounter = 0
    /\ result = NoResult
    /\ cy = CyIdle
    /\ mm = MmIdle
    /\ sg = SgIdle
    /\ ui = UiIdle
    /\ \E cols \in AlignedPairs(MaxAlnLen) :
          LET refSeqAl == [k \in 1..Len(cols) |-> cols[k][1]]
              readSeqAl == [k \in 1..Len(cols) |-> cols[k][2]]
          IN  \E includeIndx \in IncludeSets(RefLength(refSeqAl)) :
                  fis = FisEntry(readSeqAl, refSeqAl, includeIndx)

NextFisAlone ==
    \/ FisColumn
    \/ FisReturn

SpecFis == InitFis /\ [][NextFisAlone]_vars

\* ------------------------------------------------------------------------
\* Properties of findIndelsSubstitutions
\* ------------------------------------------------------------------------
FisDone == fis.status = "returned"

\* the columns (from 1) of s that hold '-'
GapColumnsOf(s) == {c \in 1..Len(s) : s[c] = Gap}

\* the number of reference bases in the columns before column c
RefCoordinate(refSeqAl, c) ==
    Cardinality({d \in 1..(c - 1) : refSeqAl[d] # Gap})

\* the include set holds every reference coordinate
FullInclude ==
    \A x \in 0..(RefLength(fis.refSeqAl) - 1) :
        \E k \in 1..Len(fis.includeIndx) : fis.includeIndx[k] = x

\* the columns 1..n in order
ColumnSeq(n) == [c \in 1..n |-> c]

\* the first columns of the maximal runs of '-' in s, in order
RunStarts(s) ==
    SelectSeq(ColumnSeq(Len(s)),
              LAMBDA c : s[c] = Gap /\ (c = 1 \/ s[c - 1] # Gap))

\* the number of columns of the run of '-' of s that starts at column c
RunLength(s, c) ==
    Cardinality({d \in c..Len(s) : \A e \in c..d : s[e] = Gap})

RECURSIVE IsSubSeq(_, _)
\* a can be obtained from b by leaving elements out
IsSubSeq(a, b) ==
    IF a = <<>> THEN TRUE
    ELSE IF b = <<>> THEN FALSE
    ELSE IF Head(a) = Head(b) THEN IsSubSeq(Tail(a), Tail(b))
    ELSE IsSubSeq(a, Tail(b))

\* C15: with every reference coordinate included, deletionN is the sum of
\* deletionSizes and the number of columns whose read character is '-'.
C15_DeletionCount ==
    (FisDone /\ FullInclude) =>
        /\ fis.deletionN = SumSeq(fis.deletionSizes)
        /\ fis.deletionN = Cardinality(GapColumnsOf(fis.readSeqAl))

\* C16: with every reference coordinate included, insertionN is the sum of
\* insertionSizes and the number of columns whose reference character is '-'.
C16_InsertionCount ==
    (FisDone /\ FullInclude) =>
        /\ fis.insertionN = SumSeq(fis.insertionSizes)
        /\ fis.insertionN = Cardinality(GapColumnsOf(fis.refSeqAl))

\* the interval [start, end) of the read-gap run that starts at column c
DeletionInterval(c) ==
    <<RefCoordinate(fis.refSeqAl, c),
      RefCoordinate(fis.refSeqAl, c) + RunLength(fis.readSeqAl, c)>>

\* C17: allDeletionCoordinates holds one half-open interval per maximal
\* read-gap run, from the reference coordinate of the run's first base, as
\* wide as the run, inside 0..|reference|; deletionCoordinates holds a
\* selection of them.
C17_DeletionIntervals ==
    FisDone =>
        LET starts == RunStarts(fis.readSeqAl)
            expected == [k \in 1..Len(starts) |-> DeletionInterval(starts[k])]
        IN  /\ fis.allDeletionCoordinates = expected
            /\ IsSubSeq(fis.deletionCoordinates, expected)
            /\ \A k \in 1..Len(fis.allDeletionCoordinates) :
                  LET d == fis.allDeletionCoordinates[k]
                  IN  0 <= d[1] /\ d[1] < d[2] /\ d[2] <= RefLength(fis.refSeqAl)

\* C18: each windowed list is a sub-list of its 'all' list, and equals it
\* when the include set holds every reference coordinate.
C18_WindowedSubLists ==
    FisDone =>
        /\ IsSubSeq(fis.insertionPositions, fis.allInsertionPositions)
        /\ IsSubSeq(fis.deletionPositions, fis.allDeletionPositions)
        /\ IsSubSeq(fis.substitutionPositions, fis.allSubstitutionPositions)
        /\ FullInclude =>
              /\ fis.insertionPositions = fis.allInsertionPositions
              /\ fis.deletionPositions = fis.allDeletionPositions
              /\ fis.substitutionPositions = fis.allSubstitutionPositions

C18_Witness ==
    /\ FisDone
    /\ FullInclude
    /\ fis.allInsertionPositions # <<>>
    /\ fis.allDeletionPositions # <<>>
    /\ fis.allSubstitutionPositions # <<>>

\* the columns that hold a substitution, in order
SubstitutionColumns ==
    SelectSeq(ColumnSeq(Len(fis.refSeqAl)),
              LAMBDA c : /\ fis.refSeqAl[c] # Gap
                         /\ fis.readSeqAl[c] # fis.refSeqAl[c]
                         /\ fis.readSeqAl[c] \notin {Gap, "N"})

\* C19: a substitution is recorded, at its reference coordinate and with the
\* read character, for exactly the columns whose reference character is not
\* '-' and whose read character differs from it and is neither '-' nor 'N';
\* with every coordinate included substitutionN is their number.
C19_Substitutions ==
    FisDone =>
        LET cols == SubstitutionColumns
        IN  /\ fis.allSubstitutionPositions =
                  [k \in 1..Len(cols) |-> RefCoordinate(fis.refSeqAl, cols[k])]
            /\ fis.allSubstitutionValues =
                  [k \in 1..Len(cols) |-> fis.readSeqAl[cols[k]]]
            /\ FullInclude => fis.substitutionN = Len(cols)

C19_Witness ==
    /\ FisDone
    /\ FullInclude
    /\ fis.substitutionN = 2
    /\ \E c \in 1..Len(fis.readSeqAl) : fis.readSeqAl[c] = "N"
    /\ \E c \in 1..Len(fis.refSeqAl) : fis.refSeqAl[c] = Gap

\* C20: refPositions has one entry per column: idx (the number of reference
\* bases before it) at a reference base, -idx at a reference gap with
\* idx > 0 and -1 with idx = 0; an entry is non-negative exactly at a
\* reference base.
C20_RefPositions ==
    FisDone =>
        /\ Len(fis.refPositions) = Len(fis.refSeqAl)
        /\ \A c \in 1..Len(fis.refSeqAl) :
              LET before == RefCoordinate(fis.refSeqAl, c)
              IN  /\ fis.refPositions[c] =
                        (IF fis.refSeqAl[c] # Gap THEN before
                         ELSE IF before > 0 THEN -before ELSE -1)
                  /\ fis.refPositions[c] >= 0 <=> fis.refSeqAl[c] # Gap

C20_Witness ==
    /\ FisDone
    /\ Len(fis.refSeqAl) = MaxAlnLen
    /\ fis.refSeqAl[1] = Gap
    /\ fis.refSeqAl[2] # Gap
    /\ fis.refSeqAl[3] = Gap

RECURSIVE FisLoop(_)
\* the loop run to its end from the locals f
FisLoop(f) == IF f.idxC < Len(f.refSeqAl) THEN FisLoop(FisColumnStep(f)) ELSE f

\* the report of a whole call
FisReport(readSeqAl, refSeqAl, includeIndx) ==
    FisEpilogue(FisLoop(FisEntry(readSeqAl, refSeqAl, includeIndx)))

\* the first columns of the reference-gap runs that have a reference base on
\* both sides, in order
InteriorInsertionStarts ==
    SelectSeq(RunStarts(fis.refSeqAl),
              LAMBDA c : /\ c > 1
                         /\ c + RunLength(fis.refSeqAl, c) <= Len(fis.refSeqAl))

\* <<start, end, size>> of the reference-gap run that starts at column c
InsertionEvent(c) ==
    <<RefCoordinate(fis.refSeqAl, c) - 1, RefCoordinate(fis.refSeqAl, c),
      RunLength(fis.refSeqAl, c)>>

\* the recorded windowed insertions as <<start, end, size>>
RecordedInsertions ==
    [k \in 1..Len(fis.insertionCoordinates) |->
        <<fis.insertionCoordinates[k][1], fis.insertionCoordinates[k][2],
          fis.insertionSizes[k]>>]

\* C21: every recorded insertion has start = the reference coordinate of the
\* base left of its reference-gap run, end = start + 1 = the coordinate of
\* the base right of it, and size = the number of columns of the run.
C21_InsertionEvents ==
    FisDone =>
        LET starts == InteriorInsertionStarts
            expected == [k \in 1..Len(starts) |-> InsertionEvent(starts[k])]
        IN  /\ Len(fis.insertionSizes) = Len(fis.insertionCoordinates)
            /\ IsSubSeq(RecordedInsertions, expected)
            /\ FullInclude => RecordedInsertions = expected
            /\ fis.allInsertionLeftPositions =
                  [k \in 1..Len(expected) |-> expected[k][1]]
            /\ \A k \in 1..Len(RecordedInsertions) :
                  LET e == RecordedInsertions[k]
                  IN  e[1] >= 0 /\ e[2] = e[1] + 1 /\ e[3] >= 1

C21_Witness ==
    /\ FisDone
    /\ FullInclude
    /\ Len(fis.refSeqAl) = MaxAlnLen
    /\ fis.refSeqAl[1] = Gap
    /\ fis.insertionCoordinates = <<<<0, 1>>>>
    /\ fis.insertionSizes = <<1>>

\* the pairs <<start, end>> the flat list allInsertionPositions holds
AllInsertionPairs ==
    [k \in 1..(Len(fis.allInsertionPositions) \div 2) |->
        <<fis.allInsertionPositions[2 * k - 1], fis.allInsertionPositions[2 * k]>>]

InInclude(x) == \E k \in 1..Len(fis.includeIndx) : fis.includeIndx[k] = x

\* C22: the windowed lists hold exactly the substitutions whose coordinate is
\* included, the insertions whose start and end are both included and the
\* deletions with an included coordinate in [start, end); the 'all' lists do
\* not depend on the include set.
C22_WindowConditions ==
    FisDone =>
        LET unfiltered == FisReport(fis.readSeqAl, fis.refSeqAl, <<>>)
        IN  /\ fis.substitutionPositions =
                  SelectSeq(fis.allSubstitutionPositions, InInclude)
            /\ fis.insertionCoordinates =
                  SelectSeq(AllInsertionPairs,
                            LAMBDA e : InInclude(e[1]) /\ InInclude(e[2]))
            /\ fis.deletionCoordinates =
                  SelectSeq(fis.allDeletionCoordinates,
                            LAMBDA d : \E x \in d[1]..(d[2] - 1) : InInclude(x))
            /\ fis.allSubstitutionPositions = unfiltered.allSubstitutionPositions
            /\ fis.allSubstitutionValues = unfiltered.allSubstitutionValues
            /\ fis.allInsertionPositions = unfiltered.allInsertionPositions
            /\ fis.allInsertionLeftPositions = unfiltered.allInsertionLeftPositions
            /\ fis.allDeletionPositions = unfiltered.allDeletionPositions
            /\ fis.allDeletionCoordinates = unfiltered.allDeletionCoordinates

C22_Witness ==
    /\ FisDone
    /\ Len(fis.allInsertionPositions) = 2
    /\ fis.insertionCoordinates = <<>>
    /\ InInclude(fis.allInsertionPositions[1])
    /\ ~InInclude(fis.allInsertionPositions[2])

\* ------------------------------------------------------------------------
\* findIndelsSubstitutions on arbitrary strings: any two strings over A, T
\* and '-' up to MaxRawLen characters, of equal length or not
\* ------------------------------------------------------------------------
MaxRawLen == 2

RawChars == {"A", "T", Gap}

RawStrings(n) == UNION {[1..m -> RawChars] : m \in 0..n}

InitFisRaw ==
    /\ seqJ = <<>> /\ seqI = <<>> /\ gapIncentive = <<0>>
    /\ matrix = DefaultCells
    /\ gapOpen = -1 /\ gapExtend = -1
    /\ pc = "fis"
    /\ outcome = "running"
    /\ mScore = <<>> /\ iScore = <<>> /\ jScore = <<>>
    /\ mPointer = <<>> /\ iPointer = <<>> /\ jPointer = <<>>
    /\ assigned = EmptyBag
    /\ fi = 0 /\ fj = 0
    /\ currI = 0 /\ currJ = 0 /\ currMatrix = 0
    /\ alignmentJ = <<>> /\ alignmentI = <<>>
    /\ matchCount = 0 /\ alignCounter = 0
    /\ result = NoResult
    /\ cy = CyIdle
    /\ mm = MmIdle
    /\ sg = SgIdle
    /\ ui = UiIdle
    /\ \E readSeqAl, refSeqAl \in RawStrings(MaxRawLen) :
          fis = FisEntry(readSeqAl, refSeqAl,
                         [k \in 1..RefLength(refSeqAl) |-> k - 1])

SpecFisRaw == InitFisRaw /\ [][NextFisAlone]_vars

\* the two strings differ in length or hold '-' in the same column
InvalidPair ==
    \/ Len(fis.readSeqAl) # Len(fis.refSeqAl)
    \/ \E c \in 1..Len(fis.refSeqAl) :
          c <= Len(fis.readSeqAl) /\ fis.refSeqAl[c] = Gap /\ fis.readSeqAl[c] = Gap

\* C23: on two strings of different lengths, or with '-' in both strings in
\* some column, findIndelsSubstitutions produces no report.
C23_RejectsInvalidInput ==
    InvalidPair => fis.status # "returned"

\* ------------------------------------------------------------------------
\* globalAlign: the planes after the fill
\* ------------------------------------------------------------------------
\* the fill loops have all run and the traceback has not started
FillDone == pc = "corner"

NonEmptyInputs == maxI >= 1 /\ maxJ >= 1

Max2(a, b) == IF a > b THEN a ELSE b

\* the penalty of the transition from M into a gap plane at (i, j)
OpeningPenalty(i, j) == IF i = maxI \/ j = maxJ THEN gapExtend ELSE gapOpen

\* C24: for non-empty inputs, after the fill the I and J planes hold, on the
\* boundary, gapExtend * j + incentive[0] in I[0, j], gapExtend * i +
\* incentive[0] in J[i, 0] and gapOpen * |read| * |reference| elsewhere, and
\* in every other cell the maximum of the opening and the extension
\* candidate (opening penalty gapExtend in the last row and column), with
\* pointer M exactly when the opening candidate is strictly greater.
C24_GapPlanes ==
    (FillDone /\ NonEmptyInputs) =>
        \A i \in 0..maxI : \A j \in 0..maxJ :
            LET here == idx(i, j) + 1
                left == idx(i, j - 1) + 1
                up == idx(i - 1, j) + 1
                g == OpeningPenalty(i, j)
            IN  /\ j = 0 => iScore[here] = gapOpen * maxJ * maxI
                /\ (i = 0 /\ j >= 1) =>
                      iScore[here] = gapExtend * j + gapIncentive[1]
                /\ i = 0 => jScore[here] = gapOpen * maxJ * maxI
                /\ (j = 0 /\ i >= 1) =>
                      jScore[here] = gapExtend * i + gapIncentive[1]
                /\ (i >= 1 /\ j >= 1) =>
                      /\ iScore[here] =
                            Max2(g + mScore[left], gapExtend + iScore[left])
                               + gapIncentive[i + 1]
                      /\ jScore[here] =
                            Max2(g + mScore[up] + gapIncentive[i],
                                 gapExtend + jScore[up])
                      /\ iPointer[here] = MARRAY <=>
                            g + mScore[left] > gapExtend + iScore[left]
                      /\ iPointer[here] \in {MARRAY, IARRAY}
                      /\ jPointer[here] = MARRAY <=>
                            g + mScore[up] + gapIncentive[i] > gapExtend + jScore[up]
                      /\ jPointer[here] \in {MARRAY, JARRAY}

C24_Witness ==
    /\ pc = "corner"
    /\ maxI = MaxRefLen /\ maxJ = MaxReadLen
    /\ gapOpen # gapExtend
    /\ \E k \in 1..maxI : gapIncentive[k] # gapIncentive[k + 1]
    /\ \E i \in 1..maxI : \E j \in 1..maxJ :
          /\ jPointer[idx(i, j) + 1] = MARRAY
          /\ gapIncentive[i] # gapIncentive[i + 1]
    /\ \E i \in 1..maxI : \E j \in 1..maxJ : iPointer[idx(i, j) + 1] = MARRAY

\* ------------------------------------------------------------------------
\* globalAlign: the comparisons of the three planes
\* ------------------------------------------------------------------------
\* the cell the running fill loop assigns next
FillRow == IF pc = "lastrow" THEN maxI ELSE fi
FillCol == IF pc = "lastcol" THEN maxJ ELSE fj

Filling == pc \in {"interior", "lastcol", "lastrow"}

\* the value of plane arr at (i - 1, j - 1) plus the substitution score of
\* (seqI[i - 1], seqJ[j - 1])
Candidate(arr, i, j) ==
    Add(Get(arr, idx(i - 1, j - 1)),
        MatrixAt(matrix, charCodeAt(seqI, i - 1), charCodeAt(seqJ, j - 1)))

\* plane is the one the tie-break order M > J > I selects among the values
\* m, i, j of the planes M, I, J, and it holds their maximum
SelectedByOrder(plane, m, i, j) ==
    IF m = NaN \/ i = NaN \/ j = NaN
    THEN plane = IARRAY
    ELSE /\ plane \in {MARRAY, IARRAY, JARRAY}
         /\ plane = MARRAY <=> (m > j /\ m > i)
         /\ plane = JARRAY <=> (j >= m /\ j > i)
         /\ plane = MARRAY => (m >= i /\ m >= j)
         /\ plane = JARRAY => (j >= m /\ j >= i)
         /\ plane = IARRAY => (i >= m /\ i >= j)

\* C25: in every step of the fill the plane recorded in mPointer, and at the
\* corner the plane the traceback starts in, holds the maximum of the three
\* compared values; it is M only if M's value is strictly greater than both
\* others, J only if J's value is at least M's and strictly greater than
\* I's, and I otherwise; the M score stored is the selected value.
C25_PlaneSelection ==
    [][/\ Filling =>
            LET m == Candidate(mScore, FillRow, FillCol)
                i == Candidate(iScore, FillRow, FillCol)
                j == Candidate(jScore, FillRow, FillCol)
                here == idx(FillRow, FillCol) + 1
            IN  /\ SelectedByOrder(mPointer'[here], m, i, j)
                /\ (m # NaN /\ i # NaN /\ j # NaN) =>
                      mScore'[here] =
                         (IF mPointer'[here] = MARRAY THEN m
                          ELSE IF mPointer'[here] = JARRAY THEN j ELSE i)
       /\ (pc = "corner" /\ pc' = "traceback") =>
            SelectedByOrder(currMatrix', mScore[idx(maxI, maxJ) + 1],
                            iScore[idx(maxI, maxJ) + 1],
                            jScore[idx(maxI, maxJ) + 1])]_vars

\* a fill step has broken a tie between M and I towards I, and the traceback
\* has started in J, whose corner value is strictly the greatest
C25_Witness ==
    /\ NonEmptyInputs
    /\ pc = "traceback"
    /\ alignCounter = 0
    /\ currMatrix = JARRAY
    /\ \E i \in 1..maxI : \E j \in 1..maxJ :
          /\ mPointer[idx(i, j) + 1] = IARRAY
          /\ mScore[idx(i - 1, j - 1) + 1] = iScore[idx(i - 1, j - 1) + 1]
          /\ mScore[idx(i - 1, j - 1) + 1] > jScore[idx(i - 1, j - 1) + 1]

\* ------------------------------------------------------------------------
\* globalAlign: the traceback loop
\* ------------------------------------------------------------------------
\* the step taken is an iteration of the traceback loop
TracebackIteration == pc = "traceback" /\ alignCounter' = alignCounter + 1

Last(s) == s[Len(s)]

Max(a, b) == IF a > b THEN a ELSE b

\* C26: for non-empty inputs the traceback starts at (|reference|, |read|);
\* an M step emits a reference base opposite a read base and decreases i and
\* j, a J step a reference base opposite '-' and decreases i only, an I step
\* '-' opposite a read base and decreases j only; the loop ends only at
\* i = 0 and j = 0, by returning, after at most |reference| + |read| and at
\* least max(|reference|, |read|) iterations.
C26_TracebackSteps ==
    [][NonEmptyInputs =>
        /\ (pc = "corner" /\ pc' = "traceback") =>
              (currI' = maxI /\ currJ' = maxJ)
        /\ (TracebackIteration /\ currMatrix = MARRAY) =>
              /\ currI >= 1 /\ currJ >= 1
              /\ currI' = currI - 1 /\ currJ' = currJ - 1
              /\ Last(alignmentI') = seqI[currI]
              /\ Last(alignmentJ') = seqJ[currJ]
        /\ (TracebackIteration /\ currMatrix = JARRAY) =>
              /\ currI >= 1
              /\ currI' = currI - 1 /\ currJ' = currJ
              /\ Last(alignmentI') = seqI[currI]
              /\ Last(alignmentJ') = Gap
        /\ (TracebackIteration /\ currMatrix = IARRAY) =>
              /\ currJ >= 1
              /\ currI' = currI /\ currJ' = currJ - 1
              /\ Last(alignmentI') = Gap
              /\ Last(alignmentJ') = seqJ[currJ]
        /\ (pc = "traceback" /\ pc' # "traceback") =>
              /\ currI = 0 /\ currJ = 0
              /\ outcome' = "returned"
              /\ alignCounter <= maxI + maxJ
              /\ alignCounter >= Max(maxI, maxJ)
              /\ Len(result'.alignedSeqI) = alignCounter
              /\ Len(result'.alignedSeqJ) = alignCounter]_vars

\* ------------------------------------------------------------------------
\* globalAlign: order of the fill
\* ------------------------------------------------------------------------
ScorePlanes == {"M", "I", "J"}

InGrid(c) == c[2] \in 0..maxI /\ c[3] \in 0..maxJ

\* every score cell of rows rows and columns cols has been assigned
AssignedIn(rows, cols) ==
    \A p \in ScorePlanes : \A i \in rows : \A j \in cols :
        CopiesIn(<<p, i, j>>, assigned) >= 1

\* C27: for non-empty inputs every score cell a fill step reads lies in the
\* (|reference| + 1) x (|read| + 1) grid and was assigned before; the
\* interior is filled row by row (i outer, j inner), the last column after
\* the whole interior, the last row after the last column, and when the
\* traceback starts every score cell has been assigned exactly once.
C27_FillOrder ==
    [][NonEmptyInputs =>
        /\ Filling =>
              \A c \in CellReads(FillRow, FillCol) :
                  InGrid(c) /\ CopiesIn(c, assigned) >= 1
        /\ Filling =>
              \A c \in CellWrites(FillRow, FillCol) :
                  InGrid(c) /\ CopiesIn(c, assigned) = 0
        /\ (pc = "interior" /\ pc' = "interior") =>
              \/ fi' = fi /\ fj' = fj + 1
              \/ fi' = fi + 1 /\ fj' = 1 /\ fj = maxJ - 1
        /\ pc = "interior" => (fi \in 1..(maxI - 1) /\ fj \in 1..(maxJ - 1))
        /\ (pc = "interior" /\ pc' # "interior") =>
              (fi = maxI - 1 /\ fj = maxJ - 1 /\ pc' = "lastcol")
        /\ pc = "lastcol" =>
              /\ AssignedIn(1..(maxI - 1), 1..(maxJ - 1))
              /\ pc' \in {"lastcol", "lastrow"}
              /\ pc' = "lastcol" => fi' = fi + 1
        /\ pc = "lastrow" =>
              /\ AssignedIn(1..(maxI - 1), 1..maxJ)
              /\ pc' \in {"lastrow", "corner"}
              /\ pc' = "lastrow" => fj' = fj + 1
        /\ pc = "corner" =>
              /\ \A c \in BagToSet(assigned) : InGrid(c)
              /\ \A p \in ScorePlanes : \A i \in 0..maxI : \A j \in 0..maxJ :
                    CopiesIn(<<p, i, j>>, assigned) = 1]_vars

C27_Witness ==
    /\ pc = "traceback"
    /\ alignCounter = 0
    /\ maxI > 2 /\ maxJ > 2
    /\ \A p \in ScorePlanes : \A i \in 0..maxI : \A j \in 0..maxJ :
          CopiesIn(<<p, i, j>>, assigned) = 1

\* ------------------------------------------------------------------------
\* globalAlign: the arguments
\* ------------------------------------------------------------------------
\* C28: no step of a globalAlign call, returning or throwing, changes the
\* scoring matrix, the gap-incentive vector or either input sequence.
C28_ArgumentsUnchanged ==
    [][/\ matrix' = matrix
       /\ gapIncentive' = gapIncentive
       /\ seqJ' = seqJ
       /\ seqI' = seqI]_vars

C28_Witness ==
    /\ outcome = "returned"
    /\ maxI = MaxRefLen /\ maxJ = MaxReadLen
    /\ matrix = DefaultCells
    /\ \E k \in 1..Len(gapIncentive) : gapIncentive[k] # 0

\* ------------------------------------------------------------------------
\* findsgRNAInSequence: the sliding-window search of an sgRNA in a target,
\* on both strands
\* ------------------------------------------------------------------------
MaxGuideLen == 2
MaxTargetLen == 4

GuideChars == {"A", "T", "N"}
TargetChars == {"A", "T", "N", Gap}

\* const complement = {...}; complement[base.toUpperCase()] || 'N'
complement(base) ==
    CASE base = "A" -> "T"
      [] base = "T" -> "A"
      [] base = "C" -> "G"
      [] base = "G" -> "C"
      [] base = "N" -> "N"
      [] base = Gap -> Gap
      [] OTHER -> "N"

\* seq.split('').reverse().map(...).join('')
getReverseComplement(seq) == [k \in 1..Len(seq) |-> complement(Reverse(seq)[k])]

\* str.substr(start, length)
substr(str, start, length) ==
    [k \in 1..(IF Len(str) - start < length THEN Max(Len(str) - start, 0) ELSE length)
        |-> str[start + k]]

\* scoresgRNAMatch times sgRNA.length (the score is matches / length * 100):
\* NaN for the empty sgRNA (0 / 0)
scoresgRNAMatch(sgRNA, targetWindow) ==
    IF Len(sgRNA) # Len(targetWindow) THEN 0
    ELSE IF Len(sgRNA) = 0 THEN NaN
    ELSE 100 * Cardinality({i \in 1..Len(sgRNA) :
                               \/ sgRNA[i] = targetWindow[i]
                               \/ sgRNA[i] = "N"
                               \/ targetWindow[i] = "N"})

RECURSIVE ScanWindows_keepsLast(_, _, _, _)
\* the loop that keeps the later of two windows of equal score
ScanWindows_keepsLast(s, query, strand, i) ==
    IF i <= Len(s.targetNoGaps) - Len(query)
    THEN LET score == scoresgRNAMatch(query, substr(s.targetNoGaps, i, Len(query)))
             t == IF score # NaN /\ score >= s.bestScore /\ score > 0
                  THEN [s EXCEPT !.bestScore = score, !.bestPos = i,
                                 !.bestStrand = strand]
                  ELSE s
         IN  ScanWindows_keepsLast(t, query, strand, i + 1)
    ELSE s

RECURSIVE ScanWindows(_, _, _, _)
\* for (let i = 0; i <= targetNoGaps.length - query.length; i++) from i on
ScanWindows(s, query, strand, i) ==
    IF i <= Len(s.targetNoGaps) - Len(query)
    THEN LET score == scoresgRNAMatch(query, substr(s.targetNoGaps, i, Len(query)))
             t == IF Gt(score, s.bestScore)
                  THEN [s EXCEPT !.bestScore = score, !.bestPos = i,
                                 !.bestStrand = strand]
                  ELSE s
         IN  ScanWindows(t, query, strand, i + 1)
    ELSE s

NotFound == [found |-> FALSE, position |-> -1, positionEnd |-> Undefined, score |-> 0,
             strand |-> "+", cutSite |-> -1]

SgEntry(sgRNA, targetSeq) ==
    [status |-> "called", sgRNA |-> sgRNA, targetSeq |-> targetSeq,
     targetNoGaps |-> <<>>, bestScore |-> 0, bestPos |-> -1, bestStrand |-> "+",
     result |-> NotFound]

\* every variable of the aligner and of the extractor idle
NoAlignerCall ==
    /\ seqJ = <<>> /\ seqI = <<>> /\ gapIncentive = <<0>>
    /\ matrix = DefaultCells
    /\ gapOpen = -1 /\ gapExtend = -1
    /\ outcome = "running"
    /\ mScore = <<>> /\ iScore = <<>> /\ jScore = <<>>
    /\ mPointer = <<>> /\ iPointer = <<>> /\ jPointer = <<>>
    /\ assigned = EmptyBag
    /\ fi = 0 /\ fj = 0
    /\ currI = 0 /\ currJ = 0 /\ currMatrix = 0
    /\ alignmentJ = <<>> /\ alignmentI = <<>>
    /\ matchCount = 0 /\ alignCounter = 0
    /\ result = NoResult
    /\ cy = CyIdle
    /\ fis = FisIdle
    /\ mm = MmIdle

InitSg ==
    /\ NoAlignerCall
    /\ pc = "sg"
    /\ ui = UiIdle
    /\ \E sgRNA \in UNION {[1..n -> GuideChars] : n \in 0..MaxGuideLen} :
       \E targetSeq \in UNION {[1..n -> TargetChars] : n \in 0..MaxTargetLen} :
          sg = SgEntry(sgRNA, targetSeq)

\* targetSeq.replace(/-/g, '') and the length test
SgStripGaps ==
    /\ pc = "sg"
    /\ sg.status = "called"
    /\ LET targetNoGaps == SelectSeq(sg.targetSeq, LAMBDA c : c # Gap)
       IN  sg' = IF Len(sg.sgRNA) > Len(targetNoGaps)
                 THEN [sg EXCEPT !.status = "returned", !.targetNoGaps = targetNoGaps]
                 ELSE [sg EXCEPT !.status = "forward", !.targetNoGaps = targetNoGaps]
    /\ UNCHANGED <<alignVars, cy, fis, mm, ui>>

\* the forward-strand loop
SgForward ==
    /\ pc = "sg"
    /\ sg.status = "forward"
    /\ sg' = [ScanWindows(sg, sg.sgRNA, "+", 0) EXCEPT !.status = "reverse"]
    /\ UNCHANGED <<alignVars, cy, fis, mm, ui>>

\* the reverse-complement loop and the return
SgReverse ==
    /\ pc = "sg"
    /\ sg.status = "reverse"
    /\ LET s == ScanWindows(sg, getReverseComplement(sg.sgRNA), "-", 0)
       IN  sg' = [s EXCEPT
                    !.status = "returned",
                    !.result = [found |-> s.bestScore > 0,
                                position |-> s.bestPos,
                                positionEnd |-> s.bestPos + Len(s.sgRNA) - 1,
                                score |-> s.bestScore,
                                strand |-> s.bestStrand,
                                cutSite |-> Undefined]]
    /\ UNCHANGED <<alignVars, cy, fis, mm, ui>>

NextSg == SgStripGaps \/ SgForward \/ SgReverse

SpecSg == InitSg /\ [][NextSg]_vars

\* the number of positions at which query and the window of target at start
\* agree, N on either side agreeing with everything
Matching(query, target, start) ==
    Cardinality({k \in 1..Len(query) :
                    \/ query[k] = target[start + k]
                    \/ query[k] = "N"
                    \/ target[start + k] = "N"})

\* the reverse complement over A, T, N
Opposite(seq) ==
    [k \in 1..Len(seq) |->
        LET b == seq[Len(seq) + 1 - k]
        IN  IF b = "A" THEN "T" ELSE IF b = "T" THEN "A" ELSE b]

MaxInputEvents == 3
DelayTicks == 2

\* what a user may leave in a sequence field
FieldValues == {<<>>, <<" ">>, <<"A">>, <<"A", " ">>, <<"A", "-">>}

\* value.toUpperCase().replace(/\s+/g, '')
Clean(value) == SelectSeq(value, LAMBDA c : c # " ")

\* seq.includes('-')
IncludesGap(seq) == \E k \in 1..Len(seq) : seq[k] = Gap

\* the page after initDNAAlignment: let alignmentTimer = null (0: no handle)
PageLoaded(seq1, seq2) ==
    [status |-> "loaded", seq1 |-> seq1, seq2 |-> seq2, alignmentTimer |-> 0,
     pending |-> {}, quiet |-> DelayTicks, inputs |-> 0, performed |-> 0]

\* triggerAutoAlignment without the clearTimeout
triggerAutoAlignment_noClear(u) ==
    [u EXCEPT !.pending = @ \cup {[id |-> u.inputs, remaining |-> DelayTicks]},
              !.alignmentTimer = u.inputs]

\* if (alignmentTimer) clearTimeout(alignmentTimer);
\* alignmentTimer = setTimeout(..., 1000); the handle is the number of the
\* input event
triggerAutoAlignment(u) ==
    LET kept == IF u.alignmentTimer # 0
                THEN {t \in u.pending : t.id # u.alignmentTimer}
                ELSE u.pending
    IN  [u EXCEPT !.pending = kept \cup {[id |-> u.inputs, remaining |-> DelayTicks]},
                  !.alignmentTimer = u.inputs]

\* performAlignment on two fields that both clean to the same one base:
\* globalAlign returns the two sequences unchanged and they are written back
performAlignment(u) ==
    [u EXCEPT !.seq1 = Clean(u.seq1), !.seq2 = Clean(u.seq2),
              !.performed = @ + 1]

\* the callback of the timer
TimerCallback(u) ==
    LET seq1 == Clean(u.seq1)
        seq2 == Clean(u.seq2)
    IN  IF /\ seq1 # <<>> /\ seq2 # <<>>
           /\ Len(seq1) > 0 /\ Len(seq2) > 0
           /\ ~IncludesGap(seq1) /\ ~IncludesGap(seq2)
        THEN performAlignment(u)
        ELSE u

InitAuto ==
    /\ NoAlignerCall
    /\ pc = "page"
    /\ sg = SgIdle
    /\ \E seq1, seq2 \in FieldValues : ui = PageLoaded(seq1, seq2)

\* an 'input' event on seq1 (field = 1) or seq2 (field = 2)
InputEvent ==
    /\ pc = "page"
    /\ ui.inputs < MaxInputEvents
    /\ \E field \in {1, 2}, value \in FieldValues :
          ui' = triggerAutoAlignment(
                   [ui EXCEPT !.seq1 = IF field = 1 THEN value ELSE @,
                              !.seq2 = IF field = 2 THEN value ELSE @,
                              !.inputs = @ + 1,
                              !.quiet = 0])
    /\ UNCHANGED <<alignVars, cy, fis, mm, sg>>

\* one tick of time passes
Tick ==
    /\ pc = "page"
    /\ ui' = [ui EXCEPT
                !.quiet = IF @ < DelayTicks THEN @ + 1 ELSE @,
                !.pending = {[id |-> t.id,
                              remaining |-> IF t.remaining > 0
                                            THEN t.remaining - 1 ELSE 0] : t \in @}]
    /\ UNCHANGED <<alignVars, cy, fis, mm, sg>>

\* a timer whose delay has passed runs its callback
TimerFire ==
    /\ pc = "page"
    /\ \E t \in ui.pending :
          /\ t.remaining = 0
          /\ ui' = TimerCallback([ui EXCEPT !.pending = @ \ {t}])
    /\ UNCHANGED <<alignVars, cy, fis, mm, sg>>

NextAuto == InputEvent \/ Tick \/ TimerFire

SpecAuto == InitAuto /\ [][NextAuto]_vars

\* a field value that is non-empty without its whitespace and has no '-'
Alignable(value) ==
    /\ \E k \in 1..Len(value) : value[k] # " "
    /\ \A k \in 1..Len(value) : value[k] # Gap

====
